---- MODULE Spec2Model ----
(***************************************************************************)
(* Winsen ZE07 carbon monoxide sensor interface                            *)
(* (src/carbon_monoxide_detector.py, class CarbonMonoxideDetector).        *)
(*                                                                         *)
(* The receiving side of the serial port is a byte stream: `wire` holds    *)
(* the bytes the sensor has transmitted that have not yet reached the      *)
(* host, `inbound` the bytes waiting in the host's receive buffer.  A read *)
(* of n bytes returns the first n bytes of the receive buffer, or all of   *)
(* it when it holds fewer (the read timed out).  The sending side is a     *)
(* sink: every write a call makes is kept, with its reads, in the call's   *)
(* list of channel operations.  Bytes are integers 0..255.  A measurement  *)
(* is kept as the integer count of tenths of a ppm, the factor of `* 0.1`. *)
(***************************************************************************)
EXTENDS Integers, Sequences, FiniteSets, TLC

VARIABLES
    is_open,    \* self._ser.is_open
    inbound,    \* receive buffer of the port: bytes arrived, not yet read
    wire,       \* bytes transmitted by the sensor, not yet arrived
    sent,       \* history: the chunks the sensor has transmitted, in order
    last,       \* the last call: method, return value, log line, channel operations
    attempts    \* history: outcome of every call that went on to read a frame

vars == <<is_open, inbound, wire, sent, last, attempts>>

----------------------------------------------------------------------------
(* Bounds of the model *)

\* chunks (single bytes, frames, replies) the sensor transmits in one behaviour
MaxSent == 1

\* replies the sensor gives in one behaviour of the query-only session
MaxReplies == 2

\* garbage bytes in front of the frame (resynchronisation scenario)
MaxGarbage == 2

\* whole frames of the continuous stream (mid-frame attach scenario)
NumFrames == 2

----------------------------------------------------------------------------
(* Class constants *)

PACKET_SIZE == 9

START_BYTE == 255

----------------------------------------------------------------------------
(* Python values *)

\* return values: None, False, or a float given in tenths of a ppm
None == <<"None">>

False == <<"False">>

Float(tenths) == <<"ppm", tenths>>

Min(a, b) == IF a < b THEN a ELSE b

RECURSIVE SumSeq(_)
SumSeq(s) == IF s = <<>> THEN 0 ELSE s[1] + SumSeq(Tail(s))

\* s[lo:hi] of Python for 0 <= lo <= hi (0-based, hi exclusive, clamped)
Slice(s, lo, hi) == SubSeq(s, lo + 1, Min(hi, Len(s)))

\* (~x) & 0xFF for x in 0..255
Not8(x) == 255 - x

----------------------------------------------------------------------------
(* The serial port *)

\* the bytes ser.read(n) returns from receive buffer buf
SerRead(buf, n) == SubSeq(buf, 1, Min(n, Len(buf)))

\* faulty variant: a read that times out short leaves its bytes in the buffer
SerRestShortKeeps(buf, n) == IF Len(buf) < n THEN buf ELSE SubSeq(buf, n + 1, Len(buf))

\* the receive buffer after ser.read(n)
SerRest(buf, n) == SubSeq(buf, Min(n, Len(buf)) + 1, Len(buf))

RdOp(n, data) == [op |-> "read", n |-> n, data |-> data]

WrOp(data) == [op |-> "write", n |-> Len(data), data |-> data]

RECURSIVE Consumed(_)
\* the bytes a call took from the receive buffer, from its channel operations
Consumed(io) ==
    IF io = <<>> THEN <<>>
    ELSE (IF io[1].op = "read" THEN io[1].data ELSE <<>>) \o Consumed(Tail(io))

RECURSIVE Written(_)
\* the commands a call wrote
Written(io) ==
    IF io = <<>> THEN <<>>
    ELSE (IF io[1].op = "write" THEN <<io[1].data>> ELSE <<>>) \o Written(Tail(io))

----------------------------------------------------------------------------
(* _calculate_checksum *)

\* faulty variant: the final mask is missing (a zero sum gives 256)
calculate_checksum_no_wrap(data) ==
    LET payload == Slice(data, 1, 8)
        checksum == SumSeq(payload) % 256
    IN  Not8(checksum) + 1

\* faulty variant: the start marker is summed too
calculate_checksum_from_0(data) ==
    LET payload == Slice(data, 0, 8)
        checksum == SumSeq(payload) % 256
    IN  (Not8(checksum) + 1) % 256

\* faulty variant: the slice has no upper end (data[1:])
calculate_checksum_open_slice(data) ==
    LET payload == Slice(data, 1, Len(data))
        checksum == SumSeq(payload) % 256
    IN  (Not8(checksum) + 1) % 256

\* payload = data[1:8]; sum & 0xFF; ((~checksum) & 0xFF) + 1; & 0xFF
calculate_checksum(data) ==
    LET payload == Slice(data, 1, 8)
        checksum == SumSeq(payload) % 256
        checksum2 == Not8(checksum) + 1
    IN  checksum2 % 256

\* faulty variant: the checksum is computed but not appended to the command
CommandNoChecksum(payload7) == <<START_BYTE>> \o payload7

\* bytearray([0xFF, ...7 bytes]) with its checksum appended
Command(payload7) ==
    LET command == <<START_BYTE>> \o payload7
    IN  Append(command, calculate_checksum(command))

CMD_INITIATIVE == Command(<<1, 120, 64, 0, 0, 0, 0>>)

CMD_QA == Command(<<1, 120, 65, 0, 0, 0, 0>>)

\* faulty variant: the checksum is not appended to the request
CMD_READ_NO_CHECKSUM == <<START_BYTE, 1, 134, 0, 0, 0, 0, 0>>

CMD_READ == Command(<<1, 134, 0, 0, 0, 0, 0>>)

----------------------------------------------------------------------------
(* Frame checks and decoding shared by the two read methods *)

\* faulty variant: the checksum byte is taken one index too low
checksum_ok_index7(full_packet) ==
    full_packet[PACKET_SIZE - 1] = calculate_checksum(full_packet)

\* faulty variant: the comparison is skipped
checksum_ok_always(full_packet) == TRUE

\* received_checksum == calculated_checksum (index PACKET_SIZE - 1, 0-based)
checksum_ok(full_packet) ==
    LET received_checksum == full_packet[(PACKET_SIZE - 1) + 1]
        calculated_checksum == calculate_checksum(full_packet)
    IN  received_checksum = calculated_checksum

\* faulty variant: the query-response offsets are used for a push frame
push_ppm_offsets23(full_packet) == Float((full_packet[3] * 256) + full_packet[4])

\* high_byte = full_packet[4], low_byte = full_packet[5] (0-based)
push_ppm(full_packet) ==
    LET high_byte == full_packet[5]
        low_byte == full_packet[6]
    IN  Float((high_byte * 256) + low_byte)

\* faulty variant: the push offsets are used for a query response
qa_ppm_offsets45(response) == Float((response[5] * 256) + response[6])

\* high_byte = response[2], low_byte = response[3] (0-based)
qa_ppm(response) ==
    LET high_byte == response[3]
        low_byte == response[4]
    IN  Float((high_byte * 256) + low_byte)

\* faulty variant: the response tag is not checked
qa_header_ok_no_tag(response) ==
    Len(response) = PACKET_SIZE /\ response[1] = 255

\* len(response) == PACKET_SIZE and response[0] == 0xFF and response[1] == 0x86
qa_header_ok(response) ==
    Len(response) = PACKET_SIZE /\ response[1] = 255 /\ response[2] = 134

\* faulty variant: any byte is taken for the start marker
is_start_any(byte) == TRUE

\* byte == self.START_BYTE
is_start(byte) == byte = <<START_BYTE>>

LOG_NOT_OPEN == "Serial port not open"

LOG_CHECKSUM == "Checksum mismatch! Data corrupted."

LOG_INVALID == "Invalid response length or header."

\* what one call of get_initiative_co_ppm does on an open port whose receive
\* buffer holds buf: return value, warning logged, reads made, buffer left,
\* and how the frame attempt ended ("none" when no start marker was read)
PushOutcome(buf) ==
    LET byte == SerRead(buf, 1)
        buf1 == SerRest(buf, 1)
    IN  IF byte = <<>>
        THEN [ret |-> None, log |-> "", io |-> <<RdOp(1, byte)>>,
              rest |-> buf1, attempt |-> "none"]
        ELSE IF is_start(byte)
        THEN LET data == SerRead(buf1, PACKET_SIZE - 1)
                 buf2 == SerRest(buf1, PACKET_SIZE - 1)
                 io == <<RdOp(1, byte), RdOp(PACKET_SIZE - 1, data)>>
             IN  IF Len(data) = PACKET_SIZE - 1
                 THEN LET full_packet == <<START_BYTE>> \o data
                      IN  IF checksum_ok(full_packet)
                          THEN [ret |-> push_ppm(full_packet), log |-> "", io |-> io,
                                rest |-> buf2, attempt |-> "ok"]
                          ELSE [ret |-> None, log |-> LOG_CHECKSUM, io |-> io,
                                rest |-> buf2, attempt |-> "checksum"]
                 ELSE [ret |-> None, log |-> "", io |-> io,
                       rest |-> buf2, attempt |-> "short"]
        ELSE [ret |-> None, log |-> "", io |-> <<RdOp(1, byte)>>,
              rest |-> buf1, attempt |-> "none"]

\* faulty variant: a short read is followed by a second read for the rest
QAOutcomeRetries(buf) ==
    LET first == SerRead(buf, PACKET_SIZE)
        buf1 == SerRest(buf, PACKET_SIZE)
        more == SerRead(buf1, PACKET_SIZE - Len(first))
        response == first \o more
        io == IF Len(first) < PACKET_SIZE
              THEN <<RdOp(PACKET_SIZE, first), RdOp(PACKET_SIZE - Len(first), more)>>
              ELSE <<RdOp(PACKET_SIZE, first)>>
    IN  IF qa_header_ok(response) /\ checksum_ok(response)
        THEN [ret |-> qa_ppm(response), log |-> "", io |-> io,
              rest |-> buf1, attempt |-> "ok"]
        ELSE [ret |-> None, log |-> LOG_INVALID, io |-> io,
              rest |-> buf1, attempt |-> "none"]

\* what the read half of get_qa_co_ppm does when the receive buffer holds buf
QAOutcome(buf) ==
    LET response == SerRead(buf, PACKET_SIZE)
        buf1 == SerRest(buf, PACKET_SIZE)
        io == <<RdOp(PACKET_SIZE, response)>>
    IN  IF qa_header_ok(response)
        THEN IF checksum_ok(response)
             THEN [ret |-> qa_ppm(response), log |-> "", io |-> io,
                   rest |-> buf1, attempt |-> "ok"]
             ELSE [ret |-> None, log |-> LOG_CHECKSUM, io |-> io,
                   rest |-> buf1, attempt |-> "checksum"]
        ELSE [ret |-> None, log |-> LOG_INVALID, io |-> io, rest |-> buf1,
              attempt |-> IF response = <<>> THEN "none"
                          ELSE IF Len(response) < PACKET_SIZE THEN "short"
                          ELSE "header"]

Call(op, ret, log, io) == [op |-> op, ret |-> ret, log |-> log, io |-> io]

Attempted(o) ==
    IF o.attempt = "none" THEN attempts
    ELSE Append(attempts, [ret |-> o.ret, how |-> o.attempt])

----------------------------------------------------------------------------
(* The sensor and the line, as the byte channel of the protocol *)

\* checksum byte the sensor appends: the negated sum of the 7 content bytes
SensorChecksum(payload7) == (256 - (SumSeq(payload7) % 256)) % 256

SensorFrame(payload7) == <<255>> \o payload7 \o <<SensorChecksum(payload7)>>

\* push frame: gas 0x04, unit 0x03, decimals 0x01, ppm high, ppm low, range 0x1388
PushFrame(hi, lo) == SensorFrame(<<4, 3, 1, hi, lo, 19, 136>>)

\* reply to a reading request: tag 0x86, ppm high, ppm low, reserved
QAFrame(hi, lo) == SensorFrame(<<134, hi, lo, 0, 0, 0, 0>>)

\* a frame whose checksum byte was damaged on the line
BadChecksum(frame) == [frame EXCEPT ![9] = (frame[9] + 1) % 256]

\* what the sensor or the line may put on the wire unasked
Chunks == {<<18>>, <<255>>, PushFrame(0, 100), BadChecksum(PushFrame(0, 100))}

\* what may come back after a reading request
QAReplies == {<<>>, QAFrame(1, 144), BadChecksum(QAFrame(1, 144)), PushFrame(0, 100)}

----------------------------------------------------------------------------
(* Initial state: the port was opened by the constructor, nothing received *)

NoCall == Call("none", None, "", <<>>)

Init ==
    /\ is_open = TRUE
    /\ inbound = <<>>
    /\ wire = <<>>
    /\ sent = <<>>
    /\ last = NoCall
    /\ attempts = <<>>

----------------------------------------------------------------------------
(* The four methods *)

\* faulty variant: the receive buffer is reset before the command is written
SetModeResetsInput(op, command) ==
    /\ IF ~is_open
       THEN /\ last' = Call(op, False, LOG_NOT_OPEN, <<>>)
            /\ inbound' = inbound
       ELSE /\ last' = Call(op, None, "", <<WrOp(command)>>)
            /\ inbound' = <<>>
    /\ UNCHANGED <<is_open, wire, sent, attempts>>

\* faulty variant: the command is written without looking at the port
SetModeNoGuard(op, command) ==
    /\ last' = Call(op, None, "", <<WrOp(command)>>)
    /\ UNCHANGED <<is_open, inbound, wire, sent, attempts>>

SetMode(op, command) ==
    /\ IF ~is_open
       THEN last' = Call(op, False, LOG_NOT_OPEN, <<>>)
       ELSE last' = Call(op, None, "", <<WrOp(command)>>)
    /\ UNCHANGED <<is_open, inbound, wire, sent, attempts>>

set_initiative_upload_mode == SetMode("set_initiative_upload_mode", CMD_INITIATIVE)

set_qa_mode == SetMode("set_qa_mode", CMD_QA)

get_initiative_co_ppm ==
    /\ IF ~is_open
       THEN /\ last' = Call("get_initiative_co_ppm", None, LOG_NOT_OPEN, <<>>)
            /\ UNCHANGED <<inbound, attempts>>
       ELSE LET o == PushOutcome(inbound)
            IN  /\ last' = Call("get_initiative_co_ppm", o.ret, o.log, o.io)
                /\ inbound' = o.rest
                /\ attempts' = Attempted(o)
    /\ UNCHANGED <<is_open, wire, sent>>

\* the request is written, the sensor answers with reply (or not at all), and
\* the first k bytes still on the line arrive before the read gives up
QueryCall(limit) ==
    IF ~is_open
    THEN /\ last' = Call("get_qa_co_ppm", None, LOG_NOT_OPEN, <<>>)
         /\ UNCHANGED <<is_open, inbound, wire, sent, attempts>>
    ELSE /\ \E reply \in QAReplies :
                /\ reply # <<>> => Len(sent) < limit
                /\ \E k \in 0..Len(wire \o reply) :
                    LET line == wire \o reply
                        o == QAOutcome(inbound \o SubSeq(line, 1, k))
                    IN  /\ last' = Call("get_qa_co_ppm", o.ret, o.log,
                                        <<WrOp(CMD_READ)>> \o o.io)
                        /\ inbound' = o.rest
                        /\ wire' = SubSeq(line, k + 1, Len(line))
                        /\ sent' = IF reply = <<>> THEN sent ELSE Append(sent, reply)
                        /\ attempts' = Attempted(o)
         /\ UNCHANGED is_open

get_qa_co_ppm == QueryCall(MaxSent)

----------------------------------------------------------------------------
(* The environment of the session *)

\* the sensor (or noise on the line) transmits one more chunk
SensorSend ==
    /\ is_open
    /\ wire = <<>>
    /\ Len(sent) < MaxSent
    /\ \E chunk \in Chunks :
        /\ wire' = chunk
        /\ sent' = Append(sent, chunk)
    /\ UNCHANGED <<is_open, inbound, last, attempts>>

\* k more bytes reach the receive buffer
Deliver ==
    /\ is_open
    /\ wire # <<>>
    /\ \E k \in 1..Len(wire) :
        /\ inbound' = inbound \o SubSeq(wire, 1, k)
        /\ wire' = SubSeq(wire, k + 1, Len(wire))
    /\ UNCHANGED <<is_open, sent, last, attempts>>

\* the port is closed under the session
ChannelClose ==
    /\ is_open
    /\ is_open' = FALSE
    /\ UNCHANGED <<inbound, wire, sent, last, attempts>>

Next ==
    \/ set_initiative_upload_mode
    \/ set_qa_mode
    \/ get_initiative_co_ppm
    \/ get_qa_co_ppm
    \/ SensorSend
    \/ Deliver
    \/ ChannelClose

Spec == Init /\ [][Next]_vars

----------------------------------------------------------------------------
(* The query-only session: the polling loop of __main__, which calls       *)
(* get_qa_co_ppm again and again, with late bytes arriving between calls.  *)

RequestReading == QueryCall(MaxReplies)

NextQuery ==
    \/ RequestReading
    \/ Deliver

SpecQuery == Init /\ [][NextQuery]_vars

----------------------------------------------------------------------------
(* Resynchronisation scenario: a run of garbage bytes followed by one      *)
(* valid push frame is on its way to the host; get_initiative_co_ppm is    *)
(* called again and again.  sent = <<garbage run, frame>>.                 *)

GarbageBytes == {18, 52, 255}

RECURSIVE SeqsUpTo(_, _)
\* the sequences over S of length at most n
SeqsUpTo(S, n) ==
    IF n = 0 THEN {<<>>}
    ELSE LET shorter == SeqsUpTo(S, n - 1)
         IN  shorter \cup {Append(g, b) : g \in shorter, b \in S}

ResyncFrames == {PushFrame(0, 100), PushFrame(1, 144)}

InitResync ==
    /\ is_open = TRUE
    /\ inbound = <<>>
    /\ \E g \in SeqsUpTo(GarbageBytes, MaxGarbage), f \in ResyncFrames :
        /\ wire = g \o f
        /\ sent = <<g, f>>
    /\ last = NoCall
    /\ attempts = <<>>

NextResync ==
    \/ get_initiative_co_ppm
    \/ Deliver

SpecResync == InitResync /\ [][NextResync]_vars

----------------------------------------------------------------------------
(* Mid-frame attach scenario: the sensor streams whole push frames back to *)
(* back and the receive buffer starts at an arbitrary offset of the first  *)
(* one; get_initiative_co_ppm is called again and again, and the polling   *)
(* loop never stops calling.  sent = the frames of the stream.             *)

RECURSIVE Flatten(_)
Flatten(ss) == IF ss = <<>> THEN <<>> ELSE ss[1] \o Flatten(Tail(ss))

\* 10.0 ppm and 40.0 ppm, and 9.4 ppm, whose checksum byte is 0xFF
AttachFrames == {PushFrame(0, 100), PushFrame(1, 144), PushFrame(0, 94), PushFrame(0, 255)}

InitAttach ==
    /\ is_open = TRUE
    /\ wire = <<>>
    /\ \E fs \in [1..NumFrames -> AttachFrames], offset \in 0..(PACKET_SIZE - 1) :
        /\ sent = fs
        /\ inbound = SubSeq(Flatten(fs), offset + 1, NumFrames * PACKET_SIZE)
    /\ last = NoCall
    /\ attempts = <<>>

NextAttach == get_initiative_co_ppm

SpecAttach == InitAttach /\ [][NextAttach]_vars /\ WF_vars(get_initiative_co_ppm)

----------------------------------------------------------------------------
(* Codec scenario: a command is built for a 7-byte payload, comes back on  *)
(* the receive side (possibly with one bit flipped on the line) and is     *)
(* validated by get_initiative_co_ppm.  sent = <<payload>>, then           *)
(* <<payload, command as built>>.                                          *)

\* payloads: device address 1, any opcode byte, and the bytes the three
\* commands of the program use
Payloads == {<<1, b, c, 0, 0, 0, 0>> : b \in 0..255, c \in {0, 64, 65, 255}}

\* b with bit i (0..7) flipped
FlipBit(b, i) == IF (b \div (2 ^ i)) % 2 = 1 THEN b - (2 ^ i) ELSE b + (2 ^ i)

InitCodec ==
    /\ is_open = TRUE
    /\ inbound = <<>>
    /\ wire = <<>>
    /\ \E P \in Payloads : sent = <<P>>
    /\ last = NoCall
    /\ attempts = <<>>

\* the command is built and put on the line towards the receive side
Loopback ==
    /\ Len(sent) = 1
    /\ wire' = Command(sent[1])
    /\ sent' = Append(sent, wire')
    /\ UNCHANGED <<is_open, inbound, last, attempts>>

\* the line flips one bit of one of bytes 1..8 (0-based) of the frame
Noise ==
    /\ Len(sent) = 2
    /\ wire = sent[2]
    /\ \E i \in 2..PACKET_SIZE, bit \in 0..7 :
        wire' = [wire EXCEPT ![i] = FlipBit(@, bit)]
    /\ UNCHANGED <<is_open, inbound, sent, last, attempts>>

\* everything on the line arrives
Arrive ==
    /\ wire # <<>>
    /\ inbound' = inbound \o wire
    /\ wire' = <<>>
    /\ UNCHANGED <<is_open, sent, last, attempts>>

NextCodec ==
    \/ Loopback
    \/ Noise
    \/ Arrive
    \/ get_initiative_co_ppm

SpecCodec == InitCodec /\ [][NextCodec]_vars

----------------------------------------------------------------------------
(* _calculate_checksum on its own: applied to an 8-byte command or a 9-byte
   packet, then to inputs that differ from it in byte 0 and byte 8 only *)

IntValue(x) == <<"int", x>>

HeadBytes == {0, 18, START_BYTE}

TailBytes == {<<>>, <<0>>, <<121>>, <<255>>}

InitChecksum ==
    /\ is_open = TRUE
    /\ \E P \in Payloads : inbound = <<START_BYTE>> \o P
    /\ wire = <<>>
    /\ sent = <<>>
    /\ last = NoCall
    /\ attempts = <<>>

ChecksumCall(data) ==
    /\ inbound' = data
    /\ last' = Call("_calculate_checksum", IntValue(calculate_checksum(data)), "", <<>>)
    /\ UNCHANGED <<is_open, wire, sent, attempts>>

ChecksumOfInput ==
    /\ last = NoCall
    /\ ChecksumCall(inbound)

ChecksumOfVariedEnds ==
    /\ last # NoCall
    /\ \E h \in HeadBytes, t \in TailBytes :
          /\ <<h>> \o SubSeq(inbound, 2, 8) \o t # inbound
          /\ ChecksumCall(<<h>> \o SubSeq(inbound, 2, 8) \o t)

NextChecksum ==
    \/ ChecksumOfInput
    \/ ChecksumOfVariedEnds

SpecChecksum == InitChecksum /\ [][NextChecksum]_vars

----------------------------------------------------------------------------
(* Reference notions the properties are stated with *)

\* the checksum of the protocol over bytes 1..7 (0-based) of a 9-byte window
RefChecksum(w) == (256 - (SumSeq(SubSeq(w, 2, 8)) % 256)) % 256

ValidPushWindow(w) == Len(w) = 9 /\ w[1] = 255 /\ w[9] = RefChecksum(w)

ValidQAWindow(w) == Len(w) = 9 /\ w[1] = 255 /\ w[2] = 134 /\ w[9] = RefChecksum(w)

\* a start marker followed by fewer than 8 bytes
IsPartial(w) == w # <<>> /\ w[1] = 255 /\ Len(w) < 9

IsPrefix(p, s) == Len(p) <= Len(s) /\ p = SubSeq(s, 1, Len(p))

Drop(s, n) == SubSeq(s, n + 1, Len(s))

IsGet(c) == c.op \in {"get_initiative_co_ppm", "get_qa_co_ppm"}

\* the call ran on an open port and returned no measurement
RecoverableFailure(c) == IsGet(c) /\ c.io # <<>> /\ c.ret = None

----------------------------------------------------------------------------
(* C1: in push mode a measurement is returned only for 9 consumed bytes    *)
(* that begin with 0xFF and whose byte 8 is the checksum of bytes 1..7,    *)
(* and it is then (byte4 * 256 + byte5) tenths of a ppm; every other       *)
(* outcome of the call returns None.                                       *)
C1_PushMeasurementOnlyFromValidFrame ==
    last.op = "get_initiative_co_ppm" =>
        LET c == Consumed(last.io)
        IN  /\ last.ret # None =>
                /\ ValidPushWindow(c)
                /\ last.ret = Float((c[5] * 256) + c[6])
            /\ ~ValidPushWindow(c) => last.ret = None

C1_Witness ==
    /\ last.op = "get_initiative_co_ppm"
    /\ last.ret = Float(100)
    /\ Consumed(last.io) = PushFrame(0, 100)

(* C2: resynchronisation.  As claimed: for every stream made of a run of   *)
(* garbage bytes followed by one valid push frame, once the calls have     *)
(* taken the whole stream (no read having timed out inside a frame) the    *)
(* measurement of that frame has been returned.                            *)
PushPpm(f) == Float((f[5] * 256) + f[6])

StreamTaken == wire = <<>> /\ inbound = <<>>

NoBodyCut == \A i \in 1..Len(attempts) : attempts[i].how # "short"

C2_ResyncAnyGarbage ==
    (StreamTaken /\ NoBodyCut) =>
        \E i \in 1..Len(attempts) : attempts[i].ret = PushPpm(sent[2])

NoStartMarkerIn(g) == \A i \in 1..Len(g) : g[i] # 255

(* C2 as amended: the same when no garbage byte is 0xFF and no read timed  *)
(* out inside the frame; the frame is then the only frame read and its     *)
(* measurement the only one returned.                                      *)
C2_ResyncGarbageWithoutStartMarker ==
    (NoStartMarkerIn(sent[1]) /\ NoBodyCut) =>
        /\ \A i \in 1..Len(attempts) : attempts[i] = [ret |-> PushPpm(sent[2]), how |-> "ok"]
        /\ Len(attempts) <= 1
        /\ StreamTaken => Len(attempts) = 1

C2_Witness ==
    /\ sent = <<<<18, 52>>, PushFrame(0, 100)>>
    /\ StreamTaken
    /\ attempts = <<[ret |-> Float(100), how |-> "ok"]>>

(* C3: mid-frame attach.  As claimed: on a continuous stream of valid push *)
(* frames entered at any offset, whatever the frame bytes, every           *)
(* measurement returned is that of a frame of the stream, read from its    *)
(* own start marker to its checksum, and a measurement is eventually       *)
(* returned.                                                               *)
\* bytes of the stream taken so far, counted from the start of the first frame
StreamPos == (Len(sent) * PACKET_SIZE) - Len(inbound)

ReturnedFrameWasSent ==
    (last.op = "get_initiative_co_ppm" /\ last.ret # None) =>
        /\ StreamPos % PACKET_SIZE = 0
        /\ Consumed(last.io) = sent[StreamPos \div PACKET_SIZE]
        /\ last.ret = PushPpm(sent[StreamPos \div PACKET_SIZE])

SomeMeasurementReturned == \E i \in 1..Len(attempts) : attempts[i].how = "ok"

C3_AttachAnyBytes == [](ReturnedFrameWasSent) /\ <>(SomeMeasurementReturned)

OnlyStartMarkersAreFF ==
    \A i \in 1..Len(sent) : \A j \in 2..PACKET_SIZE : sent[i][j] # 255

(* C3 as amended: the same when no byte of a frame after its start marker  *)
(* (bytes 1..8, the checksum included) is 0xFF.                            *)
C3_AttachFramesWithoutInnerFF ==
    /\ [](OnlyStartMarkersAreFF => ReturnedFrameWasSent)
    /\ <>(OnlyStartMarkersAreFF => SomeMeasurementReturned)

C3_Witness ==
    /\ OnlyStartMarkersAreFF
    /\ inbound = <<>>
    /\ Len(attempts) = NumFrames - 1
    /\ \A i \in 1..Len(attempts) : attempts[i].how = "ok"
    /\ last.ret = Float(100)

(* C4: a start marker followed by fewer than 8 bytes before the read times *)
(* out gives no measurement, and nothing of the partial frame is kept: the *)
(* receive buffer is empty after that call, and the next call starts with  *)
(* a one-byte read and decides on the bytes it takes from the buffer.      *)
C4_PartialFrameNotCarriedOver ==
    [][(get_initiative_co_ppm /\ is_open) =>
        LET c == Consumed(last'.io)
        IN  /\ IsPartial(c) => (last'.ret = None /\ inbound' = <<>>)
            /\ (last.op = "get_initiative_co_ppm" /\ IsPartial(Consumed(last.io))) =>
                /\ last'.io[1].op = "read" /\ last'.io[1].n = 1
                /\ IsPrefix(c, inbound)
                /\ inbound' = Drop(inbound, Len(c))
                /\ (last'.ret # None) = ValidPushWindow(c)]_vars

C4_Witness ==
    /\ attempts # <<>>
    /\ attempts[Len(attempts)].how = "short"
    /\ last.op = "get_initiative_co_ppm"
    /\ Len(Consumed(last.io)) = 1
    /\ Consumed(last.io) # <<255>>

(* C5: a 9-byte frame that starts with 0xFF and whose byte 8 is not the    *)
(* checksum of its bytes 1..7 gives no measurement and the checksum        *)
(* warning; exactly its 9 bytes are consumed, and the call after it starts *)
(* again with a one-byte read for the start marker.                        *)
BadFrameAtHead(buf) ==
    Len(buf) >= 9 /\ buf[1] = 255 /\ buf[9] # RefChecksum(SubSeq(buf, 1, 9))

C5_ChecksumMismatchDropsFrame ==
    [][(get_initiative_co_ppm /\ is_open) =>
        /\ BadFrameAtHead(inbound) =>
            /\ last'.ret = None
            /\ last'.log = LOG_CHECKSUM
            /\ Consumed(last'.io) = SubSeq(inbound, 1, 9)
            /\ inbound' = Drop(inbound, 9)
        /\ (last.op = "get_initiative_co_ppm" /\ last.log = LOG_CHECKSUM) =>
            /\ last'.io[1] = RdOp(1, SubSeq(inbound, 1, Min(1, Len(inbound))))]_vars

C5_Witness ==
    /\ last.op = "get_initiative_co_ppm"
    /\ last.log = LOG_CHECKSUM
    /\ Consumed(last.io) = BadChecksum(PushFrame(0, 100))
    /\ last.ret = None

(* C6: in query mode a measurement is returned if and only if the read     *)
(* after the request gave 9 bytes with byte0 = 0xFF, byte1 = 0x86 and      *)
(* byte8 the checksum of bytes 1..7, and it is (byte2 * 256 + byte3)       *)
(* tenths of a ppm; a short read, a wrong header and a wrong checksum each *)
(* return None (the first two with the invalid-response warning, the last  *)
(* with the checksum warning).                                             *)
C6_QueryMeasurementIffValidResponse ==
    (last.op = "get_qa_co_ppm" /\ last.io # <<>>) =>
        LET r == Consumed(last.io)
        IN  /\ (last.ret # None) = ValidQAWindow(r)
            /\ ValidQAWindow(r) => last.ret = Float((r[3] * 256) + r[4])
            /\ Len(r) < 9 => (last.ret = None /\ last.log = LOG_INVALID)
            /\ (Len(r) = 9 /\ ~(r[1] = 255 /\ r[2] = 134)) =>
                (last.ret = None /\ last.log = LOG_INVALID)
            /\ (Len(r) = 9 /\ r[1] = 255 /\ r[2] = 134 /\ r[9] # RefChecksum(r)) =>
                (last.ret = None /\ last.log = LOG_CHECKSUM)

C6_Witness ==
    /\ last.op = "get_qa_co_ppm"
    /\ Consumed(last.io) = QAFrame(1, 144)
    /\ last.ret = Float(400)

(* C7: recoverable errors are local to one attempt: after a get call that  *)
(* failed on the open port, a request that the sensor answers with one     *)
(* valid response frame, received in full, returns that frame's            *)
(* measurement (stated for a sensor all of whose replies are valid         *)
(* response frames, so that an earlier failure is a matter of timing).     *)
C7_ErrorsLocalToOneAttempt ==
    [][(/\ RecoverableFailure(last)
        /\ is_open
        /\ last'.op = "get_qa_co_ppm"
        /\ Len(sent') = Len(sent) + 1
        /\ \A i \in 1..Len(sent') : ValidQAWindow(sent'[i])
        /\ wire' = <<>>)
        => LET f == sent'[Len(sent')]
           IN  last'.ret = Float((f[3] * 256) + f[4])]_vars

(* C8: checksum self-consistency: for every 7-byte payload P the command  *)
(* 0xFF, P, checksum(0xFF + P), as built by the program, passes the check  *)
(* of the decoder when it comes back unchanged: byte 8 equals              *)
(* _calculate_checksum of the 9 bytes.  The payloads include those of the  *)
(* three commands the program sends.                                       *)
C8_BuiltCommandPassesDecoderCheck ==
    /\ Len(sent) = 2 =>
        /\ sent[2] = <<255>> \o sent[1] \o <<sent[2][9]>>
        /\ sent[2][9] \in 0..255
    /\ (last.op = "get_initiative_co_ppm" /\ Len(sent) = 2
            /\ Consumed(last.io) = sent[2]) =>
        /\ last.ret # None
        /\ last.log = ""

C8_Witness ==
    /\ last.op = "get_initiative_co_ppm"
    /\ sent = <<<<1, 120, 65, 0, 0, 0, 0>>, CMD_QA>>
    /\ Consumed(last.io) = CMD_QA
    /\ last.ret # None

(* C9: validation of a push frame succeeds if and only if frame[8] is the  *)
(* checksum of frame bytes 1..7, and a frame that is a valid frame with a  *)
(* single bit flipped in one of bytes 1..8 fails validation.               *)
OneBitFromValid(w) ==
    \E i \in 2..9, bit \in 0..7 : ValidPushWindow([w EXCEPT ![i] = FlipBit(@, bit)])

C9_ValidationIffChecksumAndNoSingleBitAccept ==
    (last.op = "get_initiative_co_ppm" /\ Len(Consumed(last.io)) = 9) =>
        LET w == Consumed(last.io)
        IN  /\ (last.ret # None) = (w[9] = RefChecksum(w))
            /\ OneBitFromValid(w) => (last.ret = None /\ last.log = LOG_CHECKSUM)

C9_Witness ==
    /\ last.op = "get_initiative_co_ppm"
    /\ Len(sent) = 2
    /\ Len(Consumed(last.io)) = 9
    /\ Consumed(last.io) # sent[2]
    /\ OneBitFromValid(Consumed(last.io))
    /\ last.ret = None

(* C10: the outcome of a get call on a port that is not open can be told   *)
(* apart by the caller from every recoverable outcome: it differs from the *)
(* outcome of a call that failed on the open port.                         *)
C10_ClosedPortDistinguishable ==
    [][(~is_open /\ (get_initiative_co_ppm \/ get_qa_co_ppm) /\ RecoverableFailure(last))
        => last'.ret # last.ret]_vars

(* C11: control always returns to the caller after a bounded number of     *)
(* channel operations: a call of get_initiative_co_ppm makes one 1-byte    *)
(* read and at most one 8-byte read after it, a call of get_qa_co_ppm one  *)
(* write and one 9-byte read, and no operation is repeated.                *)
IsRead(x, n) == x.op = "read" /\ x.n = n /\ Len(x.data) <= n

C11_BoundedChannelOperations ==
    /\ last.op = "get_initiative_co_ppm" =>
        /\ Len(last.io) <= 2
        /\ Len(last.io) >= 1 => IsRead(last.io[1], 1)
        /\ Len(last.io) = 2 => (last.io[1].data = <<255>> /\ IsRead(last.io[2], 8))
    /\ last.op = "get_qa_co_ppm" =>
        /\ Len(last.io) \in {0, 2}
        /\ Len(last.io) = 2 => (last.io[1].op = "write" /\ IsRead(last.io[2], 9))
    /\ last.log # LOG_NOT_OPEN /\ last.op = "get_initiative_co_ppm" => Len(last.io) >= 1
    /\ last.log # LOG_NOT_OPEN /\ last.op = "get_qa_co_ppm" => Len(last.io) = 2

C11_Witness ==
    /\ last.op = "get_qa_co_ppm"
    /\ Len(last.io) = 2
    /\ Len(last.io[2].data) \in 1..8
    /\ wire # <<>>

(* C12: on an open port every call of get_qa_co_ppm first writes exactly   *)
(* the 9 bytes FF 01 86 00 00 00 00 00 79 (the last one the checksum of    *)
(* bytes 1..7), and after that write makes a single read of up to 9 bytes. *)
C12_QueryWritesThenReadsOnce ==
    (last.op = "get_qa_co_ppm" /\ last.log # LOG_NOT_OPEN) =>
        /\ Written(last.io) = <<<<255, 1, 134, 0, 0, 0, 0, 0, 121>>>>
        /\ last.io[1] = [op |-> "write", n |-> 9,
                         data |-> <<255, 1, 134, 0, 0, 0, 0, 0, 121>>]
        /\ last.io[1].data[9] = RefChecksum(last.io[1].data)
        /\ Len(last.io) = 2
        /\ last.io[2].op = "read"
        /\ last.io[2].n = 9
        /\ Len(last.io[2].data) <= 9

C12_Witness ==
    /\ last.op = "get_qa_co_ppm"
    /\ last.log = LOG_CHECKSUM
    /\ Len(last.io) = 2
    /\ last.io[2].data = BadChecksum(QAFrame(1, 144))

(* C13: one call of get_initiative_co_ppm on an open port consumes no byte *)
(* when the first read times out (and makes no second read), exactly 1     *)
(* byte when the byte read is not 0xFF, and 1 + k bytes, k the number of   *)
(* body bytes available up to 8, when it is 0xFF; it never consumes more   *)
(* than 9 bytes and the bytes it consumed are gone from the channel.       *)
PushConsumption(before, after, io) ==
    LET c == Consumed(io)
    IN  /\ IsPrefix(c, before)
        /\ after = Drop(before, Len(c))
        /\ Len(c) <= 9
        /\ before = <<>> => (c = <<>> /\ Len(io) = 1)
        /\ (before # <<>> /\ before[1] # 255) => (Len(c) = 1 /\ Len(io) = 1)
        /\ (before # <<>> /\ before[1] = 255) =>
              (Len(c) = 1 + Min(8, Len(before) - 1) /\ Len(io) = 2)

C14_SetModeWritesFixedCommand ==
    /\ (last.op = "set_initiative_upload_mode" /\ last.ret # False) =>
          /\ last.io = <<[op |-> "write", n |-> 9,
                          data |-> <<255, 1, 120, 64, 0, 0, 0, 0, 71>>]>>
          /\ last.io[1].data[9] = RefChecksum(last.io[1].data)
    /\ (last.op = "set_qa_mode" /\ last.ret # False) =>
          /\ last.io = <<[op |-> "write", n |-> 9,
                          data |-> <<255, 1, 120, 65, 0, 0, 0, 0, 70>>]>>
          /\ last.io[1].data[9] = RefChecksum(last.io[1].data)

C14_Witness ==
    /\ last.op = "set_initiative_upload_mode"
    /\ is_open
    /\ Written(last.io) = <<<<255, 1, 120, 64, 0, 0, 0, 0, 71>>>>

(* C15: for every input _calculate_checksum returns a value in 0..255 that *)
(* equals (256 - (sum of bytes 1..7 mod 256)) mod 256, so a payload whose  *)
(* bytes sum to 0 mod 256 gives 0 and not 256; the result is the same for  *)
(* inputs that differ in byte 0 or in byte 8 only.                         *)
PayloadSum(data) == SumSeq(SubSeq(data, 2, 8))

ChecksumInRangeAndNegatedSum ==
    last.op = "_calculate_checksum" =>
        /\ last.ret[2] \in 0..255
        /\ last.ret[2] = (256 - (PayloadSum(inbound) % 256)) % 256
        /\ PayloadSum(inbound) % 256 = 0 => last.ret[2] = 0

C15_ChecksumArithmetic ==
    /\ []ChecksumInRangeAndNegatedSum
    /\ [][ChecksumOfVariedEnds => last'.ret = last.ret]_vars

C15_Witness ==
    /\ last.op = "_calculate_checksum"
    /\ Len(inbound) = 9
    /\ inbound[1] = 18
    /\ inbound[9] = 255
    /\ PayloadSum(inbound) = 256
    /\ last.ret = <<"int", 0>>

(* C16: on a stream of back-to-back valid push frames, a call of           *)
(* get_initiative_co_ppm that starts at a frame boundary consumes exactly  *)
(* that frame and returns its measurement, so that calls made from the     *)
(* start of the first frame return the measurements in the order the       *)
(* frames were sent, none skipped or repeated, also when bytes inside the  *)
(* frames are 0xFF.                                                        *)
AtFrameBoundary == StreamPos % PACKET_SIZE = 0 /\ inbound # <<>>

NextFrame == sent[(StreamPos \div PACKET_SIZE) + 1]

AlignedCallTakesOneFrame ==
    (get_initiative_co_ppm /\ AtFrameBoundary) =>
        /\ Consumed(last'.io) = NextFrame
        /\ last'.ret = PushPpm(NextFrame)
        /\ inbound' = Drop(inbound, PACKET_SIZE)
        /\ attempts' = Append(attempts, [ret |-> PushPpm(NextFrame), how |-> "ok"])

\* every byte consumed so far belongs to a frame that was read whole
OnlyWholeFramesRead ==
    /\ StreamPos = Len(attempts) * PACKET_SIZE
    /\ \A i \in 1..Len(attempts) : attempts[i].how = "ok"

MeasurementsInOrderSent ==
    OnlyWholeFramesRead =>
        \A i \in 1..Len(attempts) : attempts[i].ret = PushPpm(sent[i])

C16_AlignmentKept ==
    /\ [][AlignedCallTakesOneFrame]_vars
    /\ []MeasurementsInOrderSent

C16_Witness ==
    /\ ~OnlyStartMarkersAreFF
    /\ sent[1] = PushFrame(0, 255)
    /\ sent[NumFrames] = PushFrame(0, 94)
    /\ inbound = <<>>
    /\ Len(attempts) = NumFrames
    /\ attempts[1].ret = Float(255)
    /\ last.ret = Float(94)

(* C17: set_initiative_upload_mode and set_qa_mode never read from the     *)
(* channel: bytes the sensor sent before the switch stay in the receive    *)
(* buffer and on the line, and they are the first bytes the next call of   *)
(* get_qa_co_ppm or get_initiative_co_ppm reads.                           *)
IsSetOp(op) == op \in {"set_initiative_upload_mode", "set_qa_mode"}

ModeSwitchReadsNothing ==
    (set_initiative_upload_mode \/ set_qa_mode) =>
        /\ inbound' = inbound
        /\ wire' = wire
        /\ Consumed(last'.io) = <<>>
        /\ \A i \in 1..Len(last'.io) : last'.io[i].op # "read"

GetAfterSwitchReadsStaleBytesFirst ==
    (IsSetOp(last.op) /\ is_open /\ (get_initiative_co_ppm \/ get_qa_co_ppm)) =>
        LET c == Consumed(last'.io)
            m == Min(Len(c), Len(inbound))
        IN  /\ SubSeq(c, 1, m) = SubSeq(inbound, 1, m)
            /\ inbound # <<>> => c # <<>>
            /\ Len(c) <= Len(inbound) => IsPrefix(Drop(inbound, Len(c)), inbound')

C17_ModeSwitchLeavesInboundUntouched ==
    [][ModeSwitchReadsNothing /\ GetAfterSwitchReadsStaleBytesFirst]_vars

C17_Witness ==
    /\ last.op = "set_qa_mode"
    /\ last.ret = None
    /\ inbound = PushFrame(0, 100)

(* C18: when the port is not open none of the four methods writes to or    *)
(* reads from the channel; the set methods return False, the get methods   *)
(* return no measurement, and the receive buffer and the line are as they  *)
(* were before the call.                                                   *)
ClosedReturn(op) == IF IsSetOp(op) THEN False ELSE None

ClosedCallTouchesNothing ==
    (~is_open /\ (\/ set_initiative_upload_mode
                  \/ set_qa_mode
                  \/ get_initiative_co_ppm
                  \/ get_qa_co_ppm)) =>
        /\ last'.io = <<>>
        /\ last'.ret = ClosedReturn(last'.op)
        /\ last'.log = LOG_NOT_OPEN
        /\ UNCHANGED <<is_open, inbound, wire, sent, attempts>>

C18_ClosedPortIsNoOp == [][ClosedCallTouchesNothing]_vars

C18_Witness ==
    /\ ~is_open
    /\ inbound # <<>>
    /\ last.op = "set_qa_mode"
    /\ last.ret = False
    /\ last.io = <<>>

====
